---------------------------- MODULE Spec2Model ----------------------------
(***************************************************************************)
(* A model of the Gmail invoice tagger (src/main.py, with the older       *)
(* variant src/tagger.py): main() authenticates, lists the unread         *)
(* messages, and for each one extracts the plain text, classifies it      *)
(* with a text-generation model, resolves the category's label and        *)
(* applies it while clearing UNREAD.                                       *)
(*                                                                         *)
(* The two external services (the mail service, the model) are the        *)
(* environment: every call either answers, raises googleapiclient's       *)
(* HttpError, or raises some other exception (a connection error, a       *)
(* timeout), and what a call answers is drawn from bounded sets.          *)
(***************************************************************************)
EXTENDS Naturals, Sequences, FiniteSets, TLC

\* ------------------------------------------------------------------------
\* Bounds of the model
\* ------------------------------------------------------------------------

\* Messages held by the mail service.
MaxMsgs == 2

\* Parts of a multi-part message returned by messages.get.
MaxParts == 3

\* ------------------------------------------------------------------------
\* Program constants
\* ------------------------------------------------------------------------

\* CATEGORIES = ["Orders", "Invoices", "Other"]
CATEGORIES == <<"Orders", "Invoices", "Other">>

\* maxResults=10 of the messages.list call.
MaxResults == 10

\* The set of the elements of a sequence.
Range(s) == { s[k] : k \in 1..Len(s) }

\* x in CATEGORIES (Python's `in` on a list).
InCategories(x) == x \in Range(CATEGORIES)

\* ------------------------------------------------------------------------
\* base64.urlsafe_b64decode(data).decode("utf-8")
\*
\* Encoded data is a sequence of one-character strings, bytes are numbers
\* 0..255 and decoded text is a sequence of code points.
\* ------------------------------------------------------------------------

B64Alphabet ==
    << "A","B","C","D","E","F","G","H","I","J","K","L","M","N","O","P",
       "Q","R","S","T","U","V","W","X","Y","Z","a","b","c","d","e","f",
       "g","h","i","j","k","l","m","n","o","p","q","r","s","t","u","v",
       "w","x","y","z","0","1","2","3","4","5","6","7","8","9","+","/" >>

\* urlsafe_b64decode first translates "-" to "+" and "_" to "/"; the value
\* of a character outside the alphabet is 64 (binascii skips it).
B64Value(c) ==
    LET t == IF c = "-" THEN "+" ELSE IF c = "_" THEN "/" ELSE c
    IN  IF \E k \in 1..64 : B64Alphabet[k] = t
        THEN (CHOOSE k \in 1..64 : B64Alphabet[k] = t) - 1
        ELSE 64

\* binascii.a2b_base64 in its default (non-strict) mode: quad is the
\* position in the current group of four characters, left the bits carried
\* over, pads the padding characters seen in a row.
RECURSIVE a2b_base64(_, _, _, _, _, _)
a2b_base64(s, k, quad, left, pads, out) ==
    IF k > Len(s)
    THEN IF quad = 0 THEN [ok |-> TRUE, bytes |-> out]
                     ELSE [ok |-> FALSE, bytes |-> << >>]
    ELSE IF s[k] = "="
    THEN IF quad >= 2 /\ quad + pads + 1 >= 4
         THEN [ok |-> TRUE, bytes |-> out]
         ELSE a2b_base64(s, k + 1, quad, left,
                         IF quad >= 2 THEN pads + 1 ELSE pads, out)
    ELSE LET v == B64Value(s[k])
         IN  IF v >= 64 THEN a2b_base64(s, k + 1, quad, left, pads, out)
             ELSE IF quad = 0 THEN a2b_base64(s, k + 1, 1, v, 0, out)
             ELSE IF quad = 1
                  THEN a2b_base64(s, k + 1, 2, v % 16, 0,
                                  Append(out, left * 4 + (v \div 16)))
             ELSE IF quad = 2
                  THEN a2b_base64(s, k + 1, 3, v % 4, 0,
                                  Append(out, left * 16 + (v \div 4)))
             ELSE a2b_base64(s, k + 1, 0, 0, 0, Append(out, left * 64 + v))

urlsafe_b64decode(s) == a2b_base64(s, 1, 0, 0, 0, << >>)

\* A UTF-8 continuation byte.
IsCont(b) == b >= 128 /\ b <= 191

\* bytes.decode("utf-8"), strict: one to four byte forms, overlong forms and
\* surrogates rejected.
RECURSIVE utf8_decode(_, _, _)
utf8_decode(b, k, out) ==
    IF k > Len(b) THEN [ok |-> TRUE, text |-> out]
    ELSE LET c == b[k]
             n == Len(b)
         IN  IF c < 128 THEN utf8_decode(b, k + 1, Append(out, c))
             ELSE IF c >= 194 /\ c <= 223
             THEN IF k + 1 <= n /\ IsCont(b[k + 1])
                  THEN utf8_decode(b, k + 2,
                           Append(out, (c - 192) * 64 + (b[k + 1] - 128)))
                  ELSE [ok |-> FALSE, text |-> << >>]
             ELSE IF c >= 224 /\ c <= 239
             THEN IF /\ k + 2 <= n
                     /\ IsCont(b[k + 1]) /\ IsCont(b[k + 2])
                     /\ (c = 224 => b[k + 1] >= 160)
                     /\ (c = 237 => b[k + 1] <= 159)
                  THEN utf8_decode(b, k + 3,
                           Append(out, (c - 224) * 4096 + (b[k + 1] - 128) * 64
                                       + (b[k + 2] - 128)))
                  ELSE [ok |-> FALSE, text |-> << >>]
             ELSE IF c >= 240 /\ c <= 244
             THEN IF /\ k + 3 <= n
                     /\ IsCont(b[k + 1]) /\ IsCont(b[k + 2]) /\ IsCont(b[k + 3])
                     /\ (c = 240 => b[k + 1] >= 144)
                     /\ (c = 244 => b[k + 1] <= 143)
                  THEN utf8_decode(b, k + 4,
                           Append(out, (c - 240) * 262144 + (b[k + 1] - 128) * 4096
                                       + (b[k + 2] - 128) * 64 + (b[k + 3] - 128)))
                  ELSE [ok |-> FALSE, text |-> << >>]
             ELSE [ok |-> FALSE, text |-> << >>]

\* base64.urlsafe_b64decode(data).decode("utf-8"): ok is FALSE when either
\* step raises (binascii.Error, UnicodeDecodeError).
DecodeData(data) ==
    LET raw == urlsafe_b64decode(data)
    IN  IF raw.ok THEN utf8_decode(raw.bytes, 1, << >>)
                  ELSE [ok |-> FALSE, text |-> << >>]


\* ------------------------------------------------------------------------
\* What the services answer
\* ------------------------------------------------------------------------

\* How a mail-service call ends: it answers, raises HttpError, or raises an
\* exception that is not an HttpError (connection refused, timeout, ...).
CallOutcomes == {"ok", "HttpError", "OtherError"}

\* "SGk=" is "Hi", "QQ==" is "A", "w6k=" is U+00E9, "PGI-" is "<b>";
\* "_w==" is the byte 0xFF (not UTF-8) and "SGk" lacks its padding.
\* Absent data and empty data are both << >>: the code reads a missing
\* body.data as None (single-part, falsy like "") or as "" (a part).
DataHi == <<"S", "G", "k", "=">>
DataA == <<"Q", "Q", "=", "=">>
DataEAcute == <<"w", "6", "k", "=">>
DataMarkup == <<"P", "G", "I", "-">>
DataNotUtf8 == <<"_", "w", "=", "=">>
DataBadPadding == <<"S", "G", "k">>
NoData == << >>

\* The parts a multi-part payload is built from.
PartKinds ==
    { [mimeType |-> "text/plain", data |-> DataHi],
      [mimeType |-> "text/plain", data |-> DataA],
      [mimeType |-> "text/plain", data |-> NoData],
      [mimeType |-> "text/plain", data |-> DataNotUtf8],
      [mimeType |-> "text/plain", data |-> DataBadPadding],
      [mimeType |-> "text/html", data |-> DataMarkup],
      [mimeType |-> "text/html", data |-> DataNotUtf8],
      [mimeType |-> "application/pdf", data |-> NoData] }

\* Sequences of parts of length 1..n.
PartSeqs(n) == UNION { [1..k -> PartKinds] : k \in 1..n }

\* The messages messages.get(format="full") may return: single-part ones
\* (no parts, the body directly in the payload) and multi-part ones.
SinglePartMessages ==
    { [mimeType |-> t, data |-> d, parts |-> << >>] :
        t \in {"text/plain", "text/html"},
        d \in {DataHi, DataEAcute, NoData, DataMarkup, DataNotUtf8,
              DataBadPadding} }

MultiPartMessages ==
    { [mimeType |-> "multipart/mixed", data |-> NoData, parts |-> ps] :
        ps \in PartSeqs(MaxParts) }

Messages == SinglePartMessages \cup MultiPartMessages

NoMessage == [mimeType |-> "", data |-> NoData, parts |-> << >>]

\* The responses of messages.get: a message, or an exception.
GetResponses ==
    { [kind |-> "ok", msg |-> m] : m \in Messages }
    \cup { [kind |-> k, msg |-> NoMessage] : k \in {"HttpError", "OtherError"} }

\* The text of a model response carrying category c as the JSON object the
\* system instruction asks for.
JsonObject(c) == "{\"category\": \"" \o c \o "\"}"

\* Category values a model may put in its answer: the three categories and
\* one outside the set.
AnsweredCategories == Range(CATEGORIES) \cup {"Spam"}

\* response.text of the model: bare category names, JSON objects with a
\* category, and malformed answers.
ResponseTexts ==
    AnsweredCategories
    \cup { JsonObject(c) : c \in AnsweredCategories }
    \cup { "", "not json", "{}", "{\"label\": \"Orders\"}",
           "\"Invoices\"", "[\"Orders\"]", "null" }

\* How generate_content ends: a response with text, a response whose text
\* is None, or an exception.
GenOutcomes ==
    { [kind |-> "text", text |-> s] : s \in ResponseTexts }
    \cup { [kind |-> "none", text |-> ""], [kind |-> "raise", text |-> ""] }

\* ------------------------------------------------------------------------
\* get_message_text
\* ------------------------------------------------------------------------

\* PartsLoop with the media type test dropped: every part is decoded.
RECURSIVE PartsLoop_EveryPart(_, _, _)
PartsLoop_EveryPart(parts, k, text_content) ==
    IF k > Len(parts) THEN [raised |-> FALSE, text |-> text_content]
    ELSE LET d == DecodeData(parts[k].data)
         IN  IF d.ok THEN PartsLoop_EveryPart(parts, k + 1,
                                              text_content \o d.text)
                     ELSE [raised |-> TRUE, text |-> << >>]

\* The loop over the parts (lines 129-132): raised when a decode raises.
RECURSIVE PartsLoop(_, _, _)
PartsLoop(parts, k, text_content) ==
    IF k > Len(parts) THEN [raised |-> FALSE, text |-> text_content]
    ELSE IF parts[k].mimeType = "text/plain"
    THEN LET d == DecodeData(parts[k].data)
         IN  IF d.ok THEN PartsLoop(parts, k + 1, text_content \o d.text)
                     ELSE [raised |-> TRUE, text |-> << >>]
    ELSE PartsLoop(parts, k + 1, text_content)

\* get_message_text(service, msg_id), given what messages.get answers:
\* HttpError is caught and gives "", any other exception propagates.
get_message_text(resp) ==
    IF resp.kind = "HttpError" THEN [raised |-> FALSE, text |-> << >>]
    ELSE IF resp.kind = "OtherError" THEN [raised |-> TRUE, text |-> << >>]
    ELSE IF resp.msg.parts = << >>
    THEN IF resp.msg.data # << >>
         THEN LET d == DecodeData(resp.msg.data)
              IN  IF d.ok THEN [raised |-> FALSE, text |-> d.text]
                          ELSE [raised |-> TRUE, text |-> << >>]
         ELSE [raised |-> FALSE, text |-> << >>]
    ELSE PartsLoop(resp.msg.parts, 1, << >>)

\* ------------------------------------------------------------------------
\* classify_email
\* ------------------------------------------------------------------------

\* classify_email returning the model's answer without the membership test.
classify_email_Unchecked(text, gen) ==
    IF text = << >>
    THEN [raised |-> FALSE, category |-> "Other", calls |-> 0]
    ELSE IF gen.kind = "raise"
    THEN [raised |-> FALSE, category |-> "Other", calls |-> 1]
    ELSE [raised |-> FALSE, category |-> gen.text, calls |-> 1]

\* classify_email without the empty-text short circuit.
classify_email_NoEmptyCheck(text, gen) ==
    IF gen.kind = "raise"
    THEN [raised |-> FALSE, category |-> "Other", calls |-> 1]
    ELSE IF gen.kind = "text" /\ InCategories(gen.text)
    THEN [raised |-> FALSE, category |-> gen.text, calls |-> 1]
    ELSE [raised |-> FALSE, category |-> "Other", calls |-> 1]

\* classify_email(text) of main.py, given how generate_content ends: the
\* category returned and the number of model calls made. `except Exception`
\* catches whatever the call raises, so nothing reaches the caller.
classify_email(text, gen) ==
    IF text = << >>
    THEN [raised |-> FALSE, category |-> "Other", calls |-> 0]
    ELSE IF gen.kind = "raise"
    THEN [raised |-> FALSE, category |-> "Other", calls |-> 1]
    ELSE IF gen.kind = "text" /\ InCategories(gen.text)
    THEN [raised |-> FALSE, category |-> gen.text, calls |-> 1]
    ELSE [raised |-> FALSE, category |-> "Other", calls |-> 1]

\* json.loads on the response texts of the model: whether it parses, whether
\* the value is an object, and the object's "category" (when a string).
JsonLoads(s) ==
    IF \E c \in AnsweredCategories : s = JsonObject(c)
    THEN [parses |-> TRUE, isObject |-> TRUE, hasCategory |-> TRUE,
          category |-> CHOOSE c \in AnsweredCategories : s = JsonObject(c)]
    ELSE IF s \in {"{}", "{\"label\": \"Orders\"}"}
    THEN [parses |-> TRUE, isObject |-> TRUE, hasCategory |-> FALSE,
          category |-> ""]
    ELSE IF s \in {"\"Invoices\"", "[\"Orders\"]", "null"}
    THEN [parses |-> TRUE, isObject |-> FALSE, hasCategory |-> FALSE,
          category |-> ""]
    ELSE [parses |-> FALSE, isObject |-> FALSE, hasCategory |-> FALSE,
          category |-> ""]

\* classify_email(text) of tagger.py: no empty-text check and no handler
\* around the call; json.loads of the content, JSONDecodeError caught, and
\* .get on a parsed value that is no object raises AttributeError.
tagger_classify_email(text, gen) ==
    IF gen.kind # "text" THEN [raised |-> TRUE, category |-> "", calls |-> 1]
    ELSE LET out == JsonLoads(gen.text)
         IN  IF ~out.parses
             THEN [raised |-> FALSE, category |-> "Other", calls |-> 1]
             ELSE IF ~out.isObject
             THEN [raised |-> TRUE, category |-> "", calls |-> 1]
             ELSE IF out.hasCategory /\ InCategories(out.category)
             THEN [raised |-> FALSE, category |-> out.category, calls |-> 1]
             ELSE [raised |-> FALSE, category |-> "Other", calls |-> 1]

\* ------------------------------------------------------------------------
\* gmail_authenticate, fetch_unread_message_ids, get_or_create_label,
\* apply_label
\* ------------------------------------------------------------------------

\* How acquiring the session ends: the key is missing, is not JSON, the
\* credentials or the service cannot be built, or all is well.
AuthOutcomes == {"ok", "no_key", "bad_json", "error"}

\* gmail_authenticate handing out a service object although building the
\* credentials failed.
gmail_authenticate_ReturnsOnError(auth) ==
    IF auth \in {"ok", "error"} THEN "service" ELSE "None"

\* gmail_authenticate(): the service object, or None on every failure.
gmail_authenticate(auth) == IF auth = "ok" THEN "service" ELSE "None"

\* The elements of a set of numbers as a sequence in ascending order.
RECURSIVE Ascending(_)
Ascending(S) ==
    IF S = {} THEN << >>
    ELSE LET m == CHOOSE x \in S : \A y \in S : x <= y
         IN  <<m>> \o Ascending(S \ {m})

\* The first n elements of a sequence.
Take(s, n) == SubSeq(s, 1, IF Len(s) < n THEN Len(s) ELSE n)

\* fetch_unread_message_ids without its handler: HttpError propagates.
fetch_unread_message_ids_Uncaught(msgLabels, out) ==
    IF out # "ok" THEN [raised |-> TRUE, messages |-> << >>]
    ELSE [raised |-> FALSE,
          messages |-> Take(Ascending({ m \in DOMAIN msgLabels :
                                          "UNREAD" \in msgLabels[m] }),
                            MaxResults)]

\* fetch_unread_message_ids(service): messages.list(q="is:unread",
\* maxResults=10) answers the unread messages, at most ten; HttpError is
\* caught and gives [], any other exception propagates.
fetch_unread_message_ids(msgLabels, out) ==
    IF out = "HttpError" THEN [raised |-> FALSE, messages |-> << >>]
    ELSE IF out = "OtherError" THEN [raised |-> TRUE, messages |-> << >>]
    ELSE [raised |-> FALSE,
          messages |-> Take(Ascending({ m \in DOMAIN msgLabels :
                                          "UNREAD" \in msgLabels[m] }),
                            MaxResults)]

\* The labels of the service named name, in list order.
Matching(lbls, name) == SelectSeq(lbls, LAMBDA l : l.name = name)

\* The identifier the service assigns to a label it creates.
NewLabelId(lbls) == "Label_" \o ToString(Len(lbls) + 1)

\* get_or_create_label without the search of the listed labels: it always
\* creates.
get_or_create_label_NoLookup(lbls, label_name, listOut, createOut) ==
    IF listOut # "ok"
    THEN [raised |-> listOut = "OtherError", label_id |-> "", labels |-> lbls,
          calls |-> <<"labels.list">>]
    ELSE IF createOut # "ok"
    THEN [raised |-> createOut = "OtherError", label_id |-> "",
          labels |-> lbls, calls |-> <<"labels.list", "labels.create">>]
    ELSE [raised |-> FALSE, label_id |-> NewLabelId(lbls),
          labels |-> Append(lbls, [id |-> NewLabelId(lbls),
                                   name |-> label_name]),
          calls |-> <<"labels.list", "labels.create">>]

\* get_or_create_label(service, label_name), given how labels.list and
\* labels.create end and the labels the service holds: the identifier
\* returned ("" on HttpError), the service's labels afterwards, and the
\* calls made. An exception that is not an HttpError propagates.
get_or_create_label(lbls, label_name, listOut, createOut) ==
    IF listOut = "HttpError"
    THEN [raised |-> FALSE, label_id |-> "", labels |-> lbls,
          calls |-> <<"labels.list">>]
    ELSE IF listOut = "OtherError"
    THEN [raised |-> TRUE, label_id |-> "", labels |-> lbls,
          calls |-> <<"labels.list">>]
    ELSE IF Matching(lbls, label_name) # << >>
    THEN [raised |-> FALSE, label_id |-> Matching(lbls, label_name)[1].id,
          labels |-> lbls, calls |-> <<"labels.list">>]
    ELSE IF createOut = "HttpError"
    THEN [raised |-> FALSE, label_id |-> "", labels |-> lbls,
          calls |-> <<"labels.list", "labels.create">>]
    ELSE IF createOut = "OtherError"
    THEN [raised |-> TRUE, label_id |-> "", labels |-> lbls,
          calls |-> <<"labels.list", "labels.create">>]
    ELSE [raised |-> FALSE, label_id |-> NewLabelId(lbls),
          labels |-> Append(lbls, [id |-> NewLabelId(lbls),
                                   name |-> label_name]),
          calls |-> <<"labels.list", "labels.create">>]

\* apply_label without removeLabelIds: the label is added, UNREAD stays.
apply_label_KeepsUnread(msgLabels, msg_id, lid, out) ==
    IF out = "ok"
    THEN [raised |-> FALSE,
          msgLabels |-> [msgLabels EXCEPT ![msg_id] = @ \cup {lid}]]
    ELSE [raised |-> out = "OtherError", msgLabels |-> msgLabels]

\* apply_label(service, msg_id, label_id), given how messages.modify ends
\* and the label identifiers every message carries: one call that adds
\* label_id and removes UNREAD; HttpError is caught, any other exception
\* propagates, and a call that raises changes nothing.
apply_label(msgLabels, msg_id, lid, out) ==
    IF out = "ok"
    THEN [raised |-> FALSE,
          msgLabels |-> [msgLabels EXCEPT
                           ![msg_id] = (@ \cup {lid}) \ {"UNREAD"}]]
    ELSE [raised |-> out = "OtherError", msgLabels |-> msgLabels]

\* ------------------------------------------------------------------------
\* The state of a run of main()
\* ------------------------------------------------------------------------

VARIABLES
    pc,           \* where main() is
    messages,     \* the identifiers fetch_unread_message_ids returned
    idx,          \* the position of the loop in messages (0 before the loop)
    text,         \* the text of the current message
    category,     \* the category of the current message
    label_id,     \* the label identifier resolved for the current message
    labels,       \* mail service: the labels, in list order
    msgLabelIds,  \* mail service: the label identifiers of every message
    calls,        \* per message, the external calls made for it, in order
    authOutcome,  \* how acquiring the session ended ("" before it)
    listCalls,    \* how every messages.list call made ended
    initial,      \* mail service: its labels and messages before the run
    modifyArgs,   \* per message, the label_id of every messages.modify call
    created,      \* the names of the labels the run created, in order
    resolved,     \* what get_or_create_label returned: message, name, id
    successLine,  \* the messages whose success line was printed
    arg,          \* the input of a function called on its own
    ret           \* what that call returned

runVars == <<pc, messages, idx, text, category, label_id, labels,
             msgLabelIds, calls, authOutcome, listCalls, initial,
             modifyArgs, created, resolved, successLine>>

vars == <<pc, messages, idx, text, category, label_id, labels, msgLabelIds,
          calls, authOutcome, listCalls, initial, modifyArgs, created,
          resolved, successLine, arg, ret>>

\* The messages the mail service holds.
Msgs == 1..MaxMsgs

\* The system labels every account has.
SystemLabels == << [id |-> "INBOX", name |-> "INBOX"],
                   [id |-> "UNREAD", name |-> "UNREAD"] >>

\* The system labels followed by user labels named names, with the
\* identifiers the service assigned them.
RECURSIVE WithLabels(_, _)
WithLabels(lbls, names) ==
    IF names = << >> THEN lbls
    ELSE WithLabels(Append(lbls, [id |-> NewLabelId(lbls),
                                  name |-> Head(names)]),
                    Tail(names))

\* The category labels an earlier run may have left: any of the three, in
\* the order of CATEGORIES.
EarlierLabels ==
    { SelectSeq(CATEGORIES, LAMBDA c : c \in S) :
        S \in SUBSET Range(CATEGORIES) }

\* The value of arg and ret while no function is called on its own.
Unused == [fn |-> "none"]

\* The mail service before the run: any set of the messages is unread
\* (every message is in the inbox), and any category labels exist already.
ServiceInit ==
    /\ labels \in { WithLabels(SystemLabels, e) : e \in EarlierLabels }
    /\ msgLabelIds \in [Msgs -> { {"INBOX"}, {"INBOX", "UNREAD"} }]
    /\ initial = [labels |-> labels, msgLabelIds |-> msgLabelIds]

\* main() about to start.
RunInit ==
    /\ pc = "start"
    /\ messages = << >>
    /\ idx = 0
    /\ text = << >>
    /\ category = ""
    /\ label_id = ""
    /\ calls = [m \in Msgs |-> << >>]
    /\ authOutcome = ""
    /\ listCalls = << >>
    /\ modifyArgs = [m \in Msgs |-> << >>]
    /\ created = << >>
    /\ resolved = {}
    /\ successLine = {}

Init == ServiceInit /\ RunInit /\ arg = Unused /\ ret = Unused

\* ------------------------------------------------------------------------
\* main(): one action per function it calls, each with the code of main()
\* that follows the call up to the next one.
\*
\* pc is "start", "fetch", "extract", "classify", "resolve", "modify" while
\* main() runs; "exit_auth", "exit_no_messages" and "exit_complete" are its
\* three returns, and "crashed" is an exception leaving main().
\* ------------------------------------------------------------------------

\* main() without the `if not text:` skip.
EmptyText_Never(t) == FALSE

\* `if not text:` -- the extracted text is empty.
EmptyText(t) == t = << >>

\* main() without the `if label_id:` guard.
Truthy_Always(str) == TRUE

\* `if label_id:` -- a string is truthy unless it is empty.
Truthy(str) == str # ""

\* The message the loop is at.
msg_id == messages[idx]

\* The end of a loop iteration (a continue, or the end of the body): the
\* next message, or "Processing complete." The locals of the body are
\* assigned before they are read in every iteration, so they are cleared.
EndIteration ==
    /\ pc' = IF idx < Len(messages) THEN "extract" ELSE "exit_complete"
    /\ idx' = IF idx < Len(messages) THEN idx + 1 ELSE idx
    /\ text' = << >>
    /\ category' = ""
    /\ label_id' = ""

\* An exception leaves main(): the process ends with a traceback.
Crash ==
    /\ pc' = "crashed"
    /\ UNCHANGED <<idx, text, category, label_id>>

\* service = gmail_authenticate(); if not service: return
Authenticate ==
    /\ pc = "start"
    /\ \E auth \in AuthOutcomes :
          /\ authOutcome' = auth
          /\ pc' = IF gmail_authenticate(auth) = "None" THEN "exit_auth"
                                                        ELSE "fetch"
    /\ UNCHANGED <<messages, idx, text, category, label_id, labels,
                   msgLabelIds, calls, listCalls, initial, modifyArgs,
                   created, resolved, successLine, arg, ret>>

\* messages = fetch_unread_message_ids(service); if not messages: return
FetchUnread ==
    /\ pc = "fetch"
    /\ \E out \in CallOutcomes :
          LET r == fetch_unread_message_ids(msgLabelIds, out)
          IN  /\ listCalls' = Append(listCalls, out)
              /\ messages' = r.messages
              /\ IF r.raised THEN pc' = "crashed" /\ idx' = idx
                 ELSE IF r.messages = << >>
                      THEN pc' = "exit_no_messages" /\ idx' = idx
                 ELSE pc' = "extract" /\ idx' = 1
    /\ UNCHANGED <<text, category, label_id, labels, msgLabelIds, calls,
                   authOutcome, initial, modifyArgs, created, resolved,
                   successLine, arg, ret>>

\* What get_message_text may do, over everything messages.get may answer.
ExtractResults == { get_message_text(resp) : resp \in GetResponses }

\* text = get_message_text(service, msg_id); if not text: continue
ExtractText ==
    /\ pc = "extract"
    /\ calls' = [calls EXCEPT ![msg_id] = Append(@, "messages.get")]
    /\ \E r \in ExtractResults :
          IF r.raised THEN Crash
          ELSE IF EmptyText(r.text) THEN EndIteration
          ELSE /\ text' = r.text
               /\ pc' = "classify"
               /\ UNCHANGED <<idx, category, label_id>>
    /\ UNCHANGED <<messages, labels, msgLabelIds, authOutcome, listCalls,
                   initial, modifyArgs, created, resolved, successLine,
                   arg, ret>>

\* main() calling the model a second time when the first call raised.
Classify_Retries ==
    /\ pc = "classify"
    /\ \E gen \in GenOutcomes :
          LET r == classify_email(text, gen)
          IN  /\ category' = r.category
              /\ calls' = [calls EXCEPT ![msg_id] =
                             IF r.calls = 0 THEN @
                             ELSE IF gen.kind = "raise"
                             THEN @ \o <<"generate_content",
                                         "generate_content">>
                             ELSE Append(@, "generate_content")]
              /\ pc' = IF r.raised THEN "crashed" ELSE "resolve"
    /\ UNCHANGED <<messages, idx, text, label_id, labels, msgLabelIds,
                   authOutcome, listCalls, initial, modifyArgs, created,
                   resolved, successLine, arg, ret>>

\* category = classify_email(text)
Classify ==
    /\ pc = "classify"
    /\ \E gen \in GenOutcomes :
          LET r == classify_email(text, gen)
          IN  /\ category' = r.category
              /\ calls' = [calls EXCEPT ![msg_id] =
                             IF r.calls = 1 THEN Append(@, "generate_content")
                                            ELSE @]
              /\ pc' = IF r.raised THEN "crashed" ELSE "resolve"
    /\ UNCHANGED <<messages, idx, text, label_id, labels, msgLabelIds,
                   authOutcome, listCalls, initial, modifyArgs, created,
                   resolved, successLine, arg, ret>>

\* label_id = get_or_create_label(service, category); if label_id: ...
ResolveLabel ==
    /\ pc = "resolve"
    /\ \E listOut \in CallOutcomes, createOut \in CallOutcomes :
          LET r == get_or_create_label(labels, category, listOut, createOut)
          IN  /\ labels' = r.labels
              /\ calls' = [calls EXCEPT ![msg_id] = @ \o r.calls]
              /\ created' = IF r.labels # labels
                            THEN Append(created, category) ELSE created
              /\ IF r.raised THEN Crash /\ resolved' = resolved
                 ELSE /\ resolved' = resolved \cup
                                       {[msg |-> msg_id, name |-> category,
                                         id |-> r.label_id]}
                      /\ IF Truthy(r.label_id)
                         THEN /\ label_id' = r.label_id
                              /\ pc' = "modify"
                              /\ UNCHANGED <<idx, text, category>>
                         ELSE EndIteration
    /\ UNCHANGED <<messages, msgLabelIds, authOutcome, listCalls, initial,
                   modifyArgs, successLine, arg, ret>>

\* apply_label(service, msg_id, label_id); print(... "Successfully labeled
\* and marked as read.")
ApplyLabel ==
    /\ pc = "modify"
    /\ calls' = [calls EXCEPT ![msg_id] = Append(@, "messages.modify")]
    /\ modifyArgs' = [modifyArgs EXCEPT ![msg_id] = Append(@, label_id)]
    /\ \E out \in CallOutcomes :
          LET r == apply_label(msgLabelIds, msg_id, label_id, out)
          IN  /\ msgLabelIds' = r.msgLabels
              /\ IF r.raised THEN Crash /\ successLine' = successLine
                 ELSE /\ successLine' = successLine \cup {msg_id}
                      /\ EndIteration
    /\ UNCHANGED <<messages, labels, authOutcome, listCalls, initial,
                   created, resolved, arg, ret>>

Next ==
    \/ Authenticate
    \/ FetchUnread
    \/ ExtractText
    \/ Classify
    \/ ResolveLabel
    \/ ApplyLabel

Spec == Init /\ [][Next]_vars

\* ------------------------------------------------------------------------
\* The functions called on their own: arg is the input, drawn from every
\* input of the bounded sets, and ret names the function called and what it
\* returned. The run of main() stays at its start.
\* ------------------------------------------------------------------------

\* A mail service whose messages are all unread, with no user label.
ServiceIdle ==
    /\ labels = SystemLabels
    /\ msgLabelIds = [m \in Msgs |-> {"INBOX", "UNREAD"}]
    /\ initial = [labels |-> labels, msgLabelIds |-> msgLabelIds]

\* get_message_text on every answer of messages.get.
InitExtract ==
    /\ ServiceIdle /\ RunInit
    /\ arg \in GetResponses
    /\ ret = Unused

CallGetMessageText ==
    /\ ret.fn = "none"
    /\ ret' = [fn |-> "get_message_text", out |-> get_message_text(arg)]
    /\ UNCHANGED <<runVars, arg>>

NextExtract == CallGetMessageText

SpecExtract == InitExtract /\ [][NextExtract]_vars

\* The texts get_message_text may return (the empty text among them).
Texts == { r.text : r \in ExtractResults }

\* classify_email, of main.py and of tagger.py, on every text and every
\* way the model call may end.
InitClassify ==
    /\ ServiceIdle /\ RunInit
    /\ arg \in [text : Texts, gen : GenOutcomes]
    /\ ret = Unused

CallClassifyEmail ==
    /\ ret.fn = "none"
    /\ ret' = [fn |-> "classify_email",
               out |-> classify_email(arg.text, arg.gen)]
    /\ UNCHANGED <<runVars, arg>>

CallTaggerClassifyEmail ==
    /\ ret.fn = "none"
    /\ ret' = [fn |-> "tagger.classify_email",
               out |-> tagger_classify_email(arg.text, arg.gen)]
    /\ UNCHANGED <<runVars, arg>>

NextClassify == CallClassifyEmail \/ CallTaggerClassifyEmail

SpecClassify == InitClassify /\ [][NextClassify]_vars

\* ------------------------------------------------------------------------
\* Properties
\* ------------------------------------------------------------------------

\* main() has returned or has been left by an exception.
RunEnded == pc \in {"exit_auth", "exit_no_messages", "exit_complete", "crashed"}

\* The messages the run fetched.
Fetched == Range(messages)

\* No external call was made for any message, and no label was created.
NoMessageCalls ==
    /\ \A m \in Msgs : calls[m] = << >> /\ modifyArgs[m] = << >>
    /\ created = << >>

\* The mail service is as it was before the run.
ServiceUnchanged ==
    /\ labels = initial.labels
    /\ msgLabelIds = initial.msgLabelIds

\* The identifiers of the category labels message m carries.
CategoryIdsOn(m) ==
    { l.id : l \in { x \in Range(labels) : InCategories(x.name) } }
        \cap msgLabelIds[m]

\* Message m carries exactly one category label, added by this run and the
\* only label it added, and is no longer unread.
Labelled(m) ==
    /\ Cardinality(CategoryIdsOn(m)) = 1
    /\ msgLabelIds[m] \ initial.msgLabelIds[m] = CategoryIdsOn(m)
    /\ "UNREAD" \notin msgLabelIds[m]

\* Message m is as it was before the run: still unread, no label added.
Untouched(m) ==
    /\ msgLabelIds[m] = initial.msgLabelIds[m]
    /\ "UNREAD" \in msgLabelIds[m]

\* C1: at the end of every run, however the external calls went, every
\* fetched message either carries exactly one category label added by the
\* run and is read, or is untouched.
C1_TerminalStates ==
    RunEnded => \A m \in Fetched : Labelled(m) \/ Untouched(m)

\* A run that completed with one message labelled and another one left
\* untouched by a modify call that failed.
C1_Witness ==
    /\ pc = "exit_complete"
    /\ \E m1 \in Fetched, m2 \in Fetched :
          /\ Labelled(m1)
          /\ Untouched(m2)
          /\ "messages.modify" \in Range(calls[m2])

\* The number of calls of api made for message m.
CallCount(m, api) ==
    Cardinality({ k \in 1..Len(calls[m]) : calls[m][k] = api })

\* C2: messages.modify is called at most once per message, never with the
\* empty identifier, and not at all for a message whose label resolution
\* returned the empty identifier.
C2_ModifyOnceWithValidId ==
    /\ \A m \in Msgs :
          /\ CallCount(m, "messages.modify") <= 1
          /\ Len(modifyArgs[m]) = CallCount(m, "messages.modify")
          /\ \A k \in 1..Len(modifyArgs[m]) : modifyArgs[m][k] # ""
    /\ \A r \in resolved :
          r.id = "" => CallCount(r.msg, "messages.modify") = 0

\* A completed run in which one message's label resolution failed and
\* another message was modified.
C2_Witness ==
    /\ pc = "exit_complete"
    /\ \E r \in resolved : r.id = ""
    /\ \E m \in Msgs : modifyArgs[m] # << >>

\* C3: once the loop over the fetched messages has begun, whatever fails
\* for a message, the run ends normally and has visited every fetched
\* message.
C3_StageFailureAbortsOnlyMessage ==
    (RunEnded /\ idx >= 1) =>
        /\ pc = "exit_complete"
        /\ \A m \in Fetched : calls[m] # << >>

\* C4: classify_email returns one of the three categories and raises
\* nothing, for every text and every way the model call ends.
C4_ClassifyTotalClosed ==
    ret.fn = "classify_email" =>
        /\ ~ret.out.raised
        /\ InCategories(ret.out.category)

\* classify_email was called with a non-empty text and the model call
\* raised.
C4_Witness ==
    /\ ret.fn = "classify_email"
    /\ arg.text # << >>
    /\ arg.gen.kind = "raise"
    /\ ret.out.category = "Other"

\* The category of a response read as a JSON object with the one field
\* category: that value when it is one of the categories, else Other.
JsonCategory(response) ==
    LET out == JsonLoads(response)
    IN  IF out.parses /\ out.isObject /\ out.hasCategory
           /\ InCategories(out.category)
        THEN out.category
        ELSE "Other"

\* C5: for a non-empty text, classify_email returns the category field of
\* the response parsed as JSON when it is one of the categories, and Other
\* for every other response.
C5_ParsesJsonCategory ==
    (ret.fn = "classify_email" /\ arg.text # << >> /\ arg.gen.kind = "text")
        => ret.out.category = JsonCategory(arg.gen.text)

\* C6: classify_email on the empty text returns Other and makes no call
\* to the model.
C6_EmptyTextNoModelCall ==
    (ret.fn = "classify_email" /\ arg.text = << >>) =>
        /\ ret.out.category = "Other"
        /\ ret.out.calls = 0
        /\ ~ret.out.raised

\* classify_email was called with the empty text while the model would
\* have answered Invoices.
C6_Witness ==
    /\ ret.fn = "classify_email"
    /\ arg.text = << >>
    /\ arg.gen = [kind |-> "text", text |-> "Invoices"]
    /\ ret.out.category = "Other"

\* At most one label is named name, the run created at most one, and every
\* identifier get_or_create_label returned for a name is the identifier of
\* the one label of that name.
OneLabelPerName ==
    /\ \A name \in Range(CATEGORIES) :
          /\ Len(Matching(labels, name)) <= 1
          /\ Cardinality({ k \in 1..Len(created) : created[k] = name }) <= 1
    /\ \A r \in resolved :
          r.id # "" => Matching(labels, r.name) = <<[id |-> r.id, name |-> r.name]>>

\* A call of get_or_create_label for a name that exists issues no create,
\* leaves the labels alone and returns the existing identifier; a call for
\* an absent name that returns an identifier has created that one label;
\* a call that returns no identifier has created nothing.
ResolveStep ==
    pc = "resolve" =>
        LET before == Matching(labels, category)
            returned == pc' = "modify"
        IN  /\ before # << >> =>
                  /\ "labels.create" \notin Range(calls'[msg_id])
                  /\ labels' = labels
                  /\ returned => label_id' = before[1].id
            /\ (before = << >> /\ returned) =>
                  /\ labels' = Append(labels, [id |-> label_id',
                                               name |-> category])
                  /\ created' = Append(created, category)
            /\ ~returned => labels' = labels /\ created' = created

\* C7: get_or_create_label never creates a second label of a name: the
\* first call for an absent name creates it, later calls for it create
\* nothing and return the identifier of that creation, and a call for a
\* name that exists creates nothing.
C7_LabelIdempotent == []OneLabelPerName /\ [][ResolveStep]_vars

\* Two messages were resolved to the same label, which the run created.
C7_Witness ==
    \E r1 \in resolved, r2 \in resolved :
        /\ r1.msg # r2.msg
        /\ r1.name = r2.name
        /\ r1.id = r2.id
        /\ r1.id # ""
        /\ r1.name \in Range(created)

\* The unread fetch yields no identifier: the list call answered and no
\* message is unread, or it raised HttpError.
FetchYieldedNothing ==
    /\ listCalls # << >>
    /\ \/ listCalls[1] = "HttpError"
       \/ /\ listCalls[1] = "ok"
          /\ \A m \in Msgs : "UNREAD" \notin initial.msgLabelIds[m]

PlainParts(parts) == SelectSeq(parts, LAMBDA part : part.mimeType = "text/plain")

\* The concatenation of a sequence of texts.
RECURSIVE ConcatAll(_)
ConcatAll(texts) ==
    IF texts = << >> THEN << >> ELSE Head(texts) \o ConcatAll(Tail(texts))

\* The decoded contents of the text/plain parts, concatenated in order.
PlainTextOf(parts) ==
    ConcatAll([k \in 1..Len(PlainParts(parts)) |->
                 DecodeData(PlainParts(parts)[k].data).text])

\* The content of every text/plain part decodes.
PlainPartsDecode(parts) ==
    \A k \in 1..Len(PlainParts(parts)) : DecodeData(PlainParts(parts)[k].data).ok

\* C9: for a multi-part message (whose text/plain parts decode),
\* get_message_text returns the decoded contents of the text/plain parts,
\* concatenated in the order of the parts, and nothing of any other part.
C9_MultipartPlainConcat ==
    (/\ ret.fn = "get_message_text"
     /\ arg.kind = "ok"
     /\ arg.msg.parts # << >>
     /\ PlainPartsDecode(arg.msg.parts)) =>
        /\ ~ret.out.raised
        /\ ret.out.text = PlainTextOf(arg.msg.parts)

\* get_message_text was called on the parts "A", markup, "Hi" and returned
\* "AHi".
C9_Witness ==
    /\ ret.fn = "get_message_text"
    /\ arg.kind = "ok"
    /\ arg.msg.parts = << [mimeType |-> "text/plain", data |-> DataA],
                          [mimeType |-> "text/html", data |-> DataMarkup],
                          [mimeType |-> "text/plain", data |-> DataHi] >>
    /\ ret.out.text = <<65, 72, 105>>

\* C10: when acquiring the session fails, the run has returned without any
\* call to the mail service or the model and without changing any message
\* or label.
C10_AuthFailureNoWork ==
    authOutcome \in AuthOutcomes \ {"ok"} =>
        /\ pc = "exit_auth"
        /\ listCalls = << >>
        /\ messages = << >>
        /\ NoMessageCalls
        /\ ServiceUnchanged
        /\ ~ENABLED Next

\* The key was not JSON, a message was unread, and the run returned.
C10_Witness ==
    /\ pc = "exit_auth"
    /\ authOutcome = "bad_json"
    /\ \E m \in Msgs : "UNREAD" \in msgLabelIds[m]

\* C11: the success line of a message is printed only when messages.modify
\* succeeded for it: the message carries its label and is no longer unread.
C11_SuccessLineOnlyIfLabelled ==
    \A m \in successLine : Labelled(m)

\* The message has no plain-text payload: a multi-part message without a
\* text/plain part, or a single-part message whose body is absent or is
\* not of type text/plain.
NoPlainPayload(msg) ==
    IF msg.parts = << >>
    THEN msg.data = NoData \/ msg.mimeType # "text/plain"
    ELSE PlainParts(msg.parts) = << >>

\* C12: what get_message_text returns for a message without a plain-text
\* payload, single-part or multi-part, is the empty text.
C12_NoPlainPayloadGivesEmpty ==
    (/\ ret.fn = "get_message_text"
     /\ arg.kind = "ok"
     /\ NoPlainPayload(arg.msg)
     /\ ~ret.out.raised) => ret.out.text = << >>

\* The step ends the iteration of the current message: the loop moves to
\* the next message or the run completes, and no message changes.
IterationEnds ==
    /\ pc' \in {"extract", "exit_complete"}
    /\ pc' = "extract" => idx' = idx + 1
    /\ pc' = "exit_complete" => idx = Len(messages)
    /\ msgLabelIds' = msgLabelIds
    /\ modifyArgs' = modifyArgs

\* An extraction that gives the empty text ends the iteration after the
\* one messages.get call, with no label created; a label resolution that
\* returns the empty identifier ends the iteration too.
SkipStep ==
    /\ (pc = "extract" /\ pc' # "crashed" /\ text' = << >>) =>
          /\ IterationEnds
          /\ calls'[msg_id] = <<"messages.get">>
          /\ labels' = labels
          /\ created' = created
    /\ (pc = "resolve" /\ \E r \in resolved' \ resolved : r.id = "") =>
          /\ IterationEnds
          /\ "messages.modify" \notin Range(calls'[msg_id])

\* A message whose iteration has ended is never called for or changed
\* again.
FinishedIsTerminal ==
    /\ idx' >= idx
    /\ \A k \in 1..Len(messages) :
          k < idx => /\ calls'[messages[k]] = calls[messages[k]]
                     /\ msgLabelIds'[messages[k]] = msgLabelIds[messages[k]]

\* The iteration of the message at position k of messages has ended.
Finished(k) == k < idx \/ pc = "exit_complete"

\* A finished message for which only messages.get was called is untouched,
\* and so is every message whose label resolution returned the empty
\* identifier, for which messages.modify was not called.
SkippedUntouched ==
    /\ \A k \in 1..Len(messages) :
          (Finished(k) /\ calls[messages[k]] = <<"messages.get">>)
              => Untouched(messages[k])
    /\ \A r \in resolved :
          r.id = "" => /\ "messages.modify" \notin Range(calls[r.msg])
                       /\ Untouched(r.msg)

\* C13: a message whose extracted text is empty is skipped for good: no
\* model, list-labels, create-label or modify call is made for it, it
\* stays unread and no label is created for it; a message whose label
\* resolution failed is skipped without a modify call.
C13_SkippedIsTerminal ==
    []SkippedUntouched /\ [][SkipStep /\ FinishedIsTerminal]_vars

\* A completed run that skipped one message for its empty text and another
\* one for its failed label resolution.
C13_Witness ==
    /\ pc = "exit_complete"
    /\ \E m \in Fetched : calls[m] = <<"messages.get">> /\ Untouched(m)
    /\ \E r \in resolved : r.id = "" /\ Untouched(r.msg)

\* The place of an external call in the chain of one message: extract,
\* classify, resolve the label (list, then create), mutate.
Stage(api) ==
    CASE api = "messages.get" -> 1
      [] api = "generate_content" -> 2
      [] api = "labels.list" -> 3
      [] api = "labels.create" -> 4
      [] api = "messages.modify" -> 5

\* The calls of every message are in the order of the chain, none made
\* twice, and no call has been made for a message the loop has not reached.
CallsInOrder ==
    /\ \A m \in Msgs :
          \A i \in 1..Len(calls[m]), j \in 1..Len(calls[m]) :
              i < j => Stage(calls[m][i]) < Stage(calls[m][j])
    /\ \A m \in Msgs \ Fetched : calls[m] = << >>
    /\ \A k \in 1..Len(messages) : k > idx => calls[messages[k]] = << >>
    /\ Len(listCalls) <= 1

\* A step makes calls for the current message only, after the calls
\* already made for it, and the loop never goes back.
CallsAppendToCurrent ==
    /\ idx' >= idx
    /\ \A m \in Msgs :
          /\ Len(calls'[m]) >= Len(calls[m])
          /\ SubSeq(calls'[m], 1, Len(calls[m])) = calls[m]
          /\ calls'[m] # calls[m] => idx >= 1 /\ m = messages[idx]

\* C14: every external call is made at most once per message, in the order
\* extract, classify, resolve label, mutate, and all the calls of a message
\* are made before any call of the next one.
C14_SequentialNoRetry == []CallsInOrder /\ [][CallsAppendToCurrent]_vars

\* A completed run that made all five calls for one message, the create
\* call after a failed one for an earlier message.
C14_Witness ==
    /\ pc = "exit_complete"
    /\ \E m1 \in Fetched, m2 \in Fetched :
          /\ m1 < m2
          /\ calls[m1] = <<"messages.get", "generate_content", "labels.list",
                           "labels.create">>
          /\ calls[m2] = <<"messages.get", "generate_content", "labels.list",
                           "labels.create", "messages.modify">>

\* The labels the mail service holds that it did not hold before the run.
LabelsOfRun == SubSeq(labels, Len(initial.labels) + 1, Len(labels))

\* C15: every label the run creates is named after one of the three
\* categories, whatever the model answers: every name get_or_create_label
\* is called with, and so every name labels.create is called with, is a
\* category; no name is created twice, so the run creates at most three
\* labels.
C15_CreatedNamesAreCategories ==
    /\ pc = "resolve" => InCategories(category)
    /\ \A r \in resolved : InCategories(r.name)
    /\ \A k \in 1..Len(created) : InCategories(created[k])
    /\ Cardinality(Range(created)) = Len(created)
    /\ Len(created) <= Len(CATEGORIES)
    /\ Len(LabelsOfRun) = Len(created)
    /\ \A k \in 1..Len(LabelsOfRun) : LabelsOfRun[k].name = created[k]

\* The run created the labels of two different categories.
C15_Witness ==
    /\ Len(created) = 2
    /\ created[1] # created[2]
    /\ Len(labels) = Len(initial.labels) + 2

==========================================================================
